---- MODULE Spec2Model ----
(***************************************************************************)
(* Model of apiserver/bll/model/__init__.py (class ModelBLL): the Model    *)
(* and Task collections of the document store and the ModelBLL operations  *)
(* that read and update them.                                              *)
(*                                                                         *)
(* The store is two collections: models (id -> Model document) and tasks   *)
(* (id -> Task document).  A document that has been deleted is not in the  *)
(* domain of its collection.  Every ModelBLL call is one action: it reads  *)
(* the store, applies its updates in the order of the code, and leaves in  *)
(* `last` what the caller observes (the value returned or the error        *)
(* raised) and in `pre` the store as it was when the call started.         *)
(***************************************************************************)
EXTENDS Naturals, Sequences, FiniteSets, TLC

\* ------------------------------------------------------------------ bounds

\* Longest models.input array of a Task in an initial store.
MaxIn == 2
\* Longest models.output array of a Task in an initial store.
MaxOut == 1
\* Number of times datetime.utcnow() is read in one run (the clock is capped).
MaxTime == 2

\* ------------------------------------------------------------------ values

ModelIds == {"m1", "m2"}
TaskIds == {"t1", "t2"}
\* Tenants that call the operations.
Companies == {"c1", "c2"}
\* Model.company of a public Model: the empty string or null.
NoCompany == "null"
PublicCompanies == {"", NoCompany}
\* Model.task of a Model that has no originating Task.
NoTask == ""
\* A task id no Task document has (a dangling Model.task).
DanglingTask == "t0"

\* apiserver.bll.task.utils.deleted_prefix
deleted_prefix == "__DELETED__"
\* TaskStatus.published, and one status that is not published
published == "published"
created == "created"
\* EntityVisibility.archived.value
archived == "archived"

VARIABLES
    models,  \* Model collection: id -> document
    tasks,   \* Task collection: id -> document
    now,     \* datetime.utcnow(): the last instant a call has read
    pre,     \* the store when the last call started
    last,    \* the last call: its arguments, and its result or error
    prev,    \* pre and last as they were before the last call
    runs     \* the calls in progress, where calls are taken step by step

vars == <<models, tasks, now, pre, last, prev, runs>>

\* ------------------------------------------------------------------ documents

\* A models.input / models.output element (ModelItem): the `model` field is
\* the only one ModelBLL reads or writes.
ModelItem(id) == [model |-> id]

\* Sequences over S of length at most n.
SeqsUpTo(S, n) == UNION {[1..k -> S] : k \in 0..n}

\* ------------------------------------------------------------------ results

Ok == "ok"
InvalidModelId == "InvalidModelId"
ModelIsReady == "ModelIsReady"
ModelInUse == "ModelInUse"
ModelCreatingTaskExists == "ModelCreatingTaskExists"
\* the injected publish_task_func raised
PublishTaskFailed == "PublishTaskFailed"
\* the store refused an update document
WriteError == "WriteError"

NoPayload == "none"

\* The record of a call; every call fills the fields it has.
NoCall ==
    [op |-> "none", model_id |-> "", company_id |-> "", force |-> FALSE,
     func |-> "none", err |-> Ok, count |-> 0, published_task |-> NoPayload,
     calls |-> 0, num_tasks |-> 0, task |-> NoTask, rewrite |-> "none",
     ids |-> <<>>, allow_public |-> FALSE, return_models |-> FALSE,
     returned |-> {}, err_ids |-> <<>>, stats |-> <<>>, queries |-> 0]

Store == [models |-> models, tasks |-> tasks]

\* A Model's labels, a mapping from label names to numbers: none, one, two.
NoLabels == <<>>
LabelMaps == {[l \in L |-> 1] : L \in {{}, {"cat"}, {"cat", "dog"}}}

\* No call before the last one.
NoPrev == [pre |-> <<>>, last |-> NoCall]

\* Where the call before the last one is not kept.
NoHistory == <<>>

\* No call in progress.
NoRuns == <<>>

\* ------------------------------------------------------------------ reads

\* GetCompanyModelById with a query by id alone.
GetCompanyModelById_AnyCompany(ms, company_id, model_id) == model_id \in DOMAIN ms

\* get_company_model_by_id: the query dict(company=company_id, id=model_id)
\* has a first document.
GetCompanyModelById(ms, company_id, model_id) ==
    /\ model_id \in DOMAIN ms
    /\ ms[model_id].company = company_id

\* ------------------------------------------------------------------ initial stores
\* m1 is a draft Model of company c1 with any originating Task: none, t1 of
\* its own company, t2 of another company, or a task id without a document.
\* m2 is a public Model, which no company can publish, archive or delete.
\* t1 lists any Models in models.input and models.output; t2, of company c2,
\* may list m1 as input.  Both Tasks are published or not.  A ready or an
\* archived Model, a deleted Model and rewritten references are reached by
\* the calls.

InitModels ==
    {ms \in [ModelIds ->
                [company : Companies \cup PublicCompanies, ready : BOOLEAN,
                 task : TaskIds \cup {NoTask, DanglingTask},
                 system_tags : {<<>>, <<"sys">>}, last_update : {0},
                 labels : {NoLabels}]] :
        /\ ms["m1"].company = "c1"
        /\ ms["m1"].ready = FALSE
        /\ ms["m1"].system_tags = <<"sys">>
        /\ ms["m2"].company = NoCompany
        /\ ms["m2"].ready = FALSE
        /\ ms["m2"].task = NoTask
        /\ ms["m2"].system_tags = <<>>}

InitTasks ==
    {ts \in [TaskIds ->
                [company : Companies, status : {created, published},
                 input : SeqsUpTo({ModelItem(m) : m \in ModelIds}, MaxIn),
                 output : SeqsUpTo({ModelItem(m) : m \in ModelIds}, MaxOut),
                 error : {[msg |-> "", at |-> 0]}, last_change : {0}]] :
        /\ ts["t1"].company = "c1"
        /\ ts["t2"].company = "c2"
        /\ ts["t2"].input \in {<<>>, <<ModelItem("m1")>>}
        /\ ts["t2"].output = <<>>}

\* The calls read the status of a Task only through the task field of a
\* Model: a Task that no Model has as its task starts not published.
Init ==
    /\ models \in InitModels
    /\ tasks \in InitTasks
    /\ \A t \in TaskIds :
          tasks[t].status = published =>
              \E m \in ModelIds : models[m].task = t
    /\ now = 0
    /\ pre = [models |-> models, tasks |-> tasks]
    /\ last = NoCall
    /\ prev = NoHistory
    /\ runs = NoRuns

\* ------------------------------------------------------------------ store primitives

\* Model.objects(company=company_id, id=model_id): the ids the query matches.
ModelQuery(ms, company_id, model_id) ==
    {m \in DOMAIN ms : m = model_id /\ ms[m].company = company_id}

\* UsingTasks with the query on the wrong array (models__output__model).
UsingTasks_Output(ts, model_id) ==
    {t \in DOMAIN ts : \E i \in DOMAIN ts[t].output : ts[t].output[i].model = model_id}

\* Task.objects(models__input__model=model_id).only("id"): the Tasks, of any
\* company, with a models.input element whose model field is model_id.
UsingTasks(ts, model_id) ==
    {t \in DOMAIN ts : \E i \in DOMAIN ts[t].input : ts[t].input[i].model = model_id}

\* UpdateManyInput with the all-positional operator models.input.$[].model,
\* which rewrites every element of each Task.
UpdateManyInput_WholeArray(ts, ids, model_id, deleted_model_id) ==
    [t \in DOMAIN ts |->
        IF t \in ids
        THEN [ts[t] EXCEPT !.input =
                 [i \in DOMAIN @ |-> [@[i] EXCEPT !.model = deleted_model_id]]]
        ELSE ts[t]]

\* UpdateManyInput with the positional operator models.input.$.model, which
\* rewrites only the first matching element of each Task.
UpdateManyInput_FirstElement(ts, ids, model_id, deleted_model_id) ==
    [t \in DOMAIN ts |->
        IF t \in ids
        THEN [ts[t] EXCEPT !.input =
                 [i \in DOMAIN @ |->
                     IF /\ @[i].model = model_id
                        /\ \A j \in 1..(i - 1) : @[j].model # model_id
                     THEN [@[i] EXCEPT !.model = deleted_model_id]
                     ELSE @[i]]]
        ELSE ts[t]]

\* update_many(filter {_id in ids}, $set models.input.$[elem].model, array
\* filter elem.model = model_id): in every Task of ids, every input element
\* naming model_id now names deleted_model_id; nothing else changes.
UpdateManyInput(ts, ids, model_id, deleted_model_id) ==
    [t \in DOMAIN ts |->
        IF t \in ids
        THEN [ts[t] EXCEPT !.input =
                 [i \in DOMAIN @ |->
                     IF @[i].model = model_id
                     THEN [@[i] EXCEPT !.model = deleted_model_id]
                     ELSE @[i]]]
        ELSE ts[t]]

\* task.models.output has an element whose model field is model_id.
OutputNames(task, model_id) ==
    \E i \in DOMAIN task.output : task.output[i].model = model_id

\* What lines 120-133 can do for a published originating Task, force given.
\* Two things decide it that this source file does not: what `model_id in
\* task.models.output` yields when the list holds ModelItem documents and
\* model_id is a string (list membership compares with ==, and a mongoengine
\* embedded document equals only documents of its own class), and what the
\* store does with an update document that has the key last_change beside
\* $set (MongoDB refuses a document that mixes operators and plain fields).
\*   "skipped"  : the membership test is false, no update is sent
\*   "rejected" : the update is sent and the store raises a write error
\*   "applied"  : the update is sent and the store applies its $set part
\* When no output element names model_id the test is false either way.
OutputRewriteOutcomes(task, model_id) ==
    IF Len(task.output) > 0 /\ OutputNames(task, model_id)
    THEN {"skipped", "rejected", "applied"}
    ELSE {"skipped"}

\* update_one(filter {_id: task_id, models.output.model: model_id}, $set
\* models.output.$[elem].model and output.error, array filter elem.model =
\* model_id), as applied: last_change is outside $set and is not written.
UpdateOneOutput(ts, task_id, model_id, deleted_model_id, t) ==
    [x \in DOMAIN ts |->
        IF x = task_id /\ OutputNames(ts[x], model_id)
        THEN [ts[x] EXCEPT
                 !.output = [i \in DOMAIN @ |->
                                IF @[i].model = model_id
                                THEN [@[i] EXCEPT !.model = deleted_model_id]
                                ELSE @[i]],
                 !.error = [msg |-> "model deleted on", at |-> t]]
        ELSE ts[x]]

\* DeleteModels with a query by company alone.
DeleteModels_WholeCompany(ms, company_id, model_id) ==
    [m \in {x \in DOMAIN ms : ms[x].company # company_id} |-> ms[m]]

\* DeleteModels that removes no document.
DeleteModels_Nothing(ms, company_id, model_id) == ms

\* Model.objects(id=model_id, company=company_id).delete()
DeleteModels(ms, company_id, model_id) ==
    [m \in DOMAIN ms \ ModelQuery(ms, company_id, model_id) |-> ms[m]]

\* MatchCount that reports one document whatever the query matched.
MatchCount_AlwaysOne(ms, company_id, model_id) == 1

\* The count that Model.objects(id=model_id, company=company_id).delete()
\* and .update(...) return: the number of documents the query matched.
MatchCount(ms, company_id, model_id) ==
    Cardinality(ModelQuery(ms, company_id, model_id))

\* The count that model.update(...) on a fetched document returns: the
\* number of documents with its id.
IdCount(ms, model_id) == Cardinality({model_id} \cap DOMAIN ms)

\* UpdateReady with upsert=True: a document that is not there is inserted.
UpdateReady_Upsert(ms, model_id, t) ==
    [m \in DOMAIN ms \cup {model_id} |->
        IF m = model_id
        THEN [company |-> "c1", ready |-> TRUE, task |-> NoTask,
              system_tags |-> <<>>, last_update |-> t, labels |-> NoLabels]
        ELSE ms[m]]

\* model.update(upsert=False, ready=True, last_update=t) on the fetched
\* document: the update is keyed by the document's id.
UpdateReady(ms, model_id, t) ==
    [m \in DOMAIN ms |->
        IF m = model_id THEN [ms[m] EXCEPT !.ready = TRUE, !.last_update = t]
        ELSE ms[m]]

\* $addToSet on an array: x is appended unless an element equals it.
AddToSet(arr, x) ==
    IF \E i \in DOMAIN arr : arr[i] = x THEN arr ELSE Append(arr, x)

\* $pull on an array: every element equal to x is removed.
Pull(arr, x) ==
    LET keep(e) == e # x IN SelectSeq(arr, keep)

\* AddArchivedTag with $push instead of $addToSet.
AddArchivedTag_Push(ms, company_id, model_id, t) ==
    [m \in DOMAIN ms |->
        IF m \in ModelQuery(ms, company_id, model_id)
        THEN [ms[m] EXCEPT !.system_tags = Append(@, archived),
                           !.last_update = t]
        ELSE ms[m]]

\* update(add_to_set__system_tags=archived, last_update=t)
AddArchivedTag(ms, company_id, model_id, t) ==
    [m \in DOMAIN ms |->
        IF m \in ModelQuery(ms, company_id, model_id)
        THEN [ms[m] EXCEPT !.system_tags = AddToSet(@, archived),
                           !.last_update = t]
        ELSE ms[m]]

\* PullArchivedTag that also takes the Model back to draft.
PullArchivedTag_ResetsReady(ms, company_id, model_id, t) ==
    [m \in DOMAIN ms |->
        IF m \in ModelQuery(ms, company_id, model_id)
        THEN [ms[m] EXCEPT !.system_tags = Pull(@, archived), !.last_update = t,
                           !.ready = FALSE]
        ELSE ms[m]]

\* update(pull__system_tags=archived, last_update=t)
PullArchivedTag(ms, company_id, model_id, t) ==
    [m \in DOMAIN ms |->
        IF m \in ModelQuery(ms, company_id, model_id)
        THEN [ms[m] EXCEPT !.system_tags = Pull(@, archived), !.last_update = t]
        ELSE ms[m]]

\* The injected publish_task_func when it returns: the Task subsystem has
\* published the Task.
PublishTaskFunc(ts, task_id) ==
    [ts EXCEPT ![task_id].status = published]

\* ------------------------------------------------------------------ publish

\* ModelReady with the check left out.
ModelReady_Unchecked(ms, model_id) == FALSE

\* `if model.ready`: the fetched Model is already published.
ModelReady(ms, model_id) == ms[model_id].ready

\* ShouldPublishTask without the comparison of the Task's status.
ShouldPublishTask_AnyStatus(ms, ts, model_id, company_id, func) ==
    LET task_id == ms[model_id].task
    IN  /\ task_id # NoTask
        /\ func # "none"
        /\ task_id \in DOMAIN ts
        /\ ts[task_id].company = company_id

\* Lines 70-76: the callback is called when the Model has a task and a
\* callback was given, Task.objects(id=model.task, company=company_id)
\* has a first document, and its status is not published.
ShouldPublishTask(ms, ts, model_id, company_id, func) ==
    LET task_id == ms[model_id].task
    IN  /\ task_id # NoTask
        /\ func # "none"
        /\ task_id \in DOMAIN ts
        /\ ts[task_id].company = company_id
        /\ ts[task_id].status # published

\* CallResult with the callback's exception caught and dropped.
CallResult_Swallowed(func) == Ok

\* Lines 77-79: the call is not guarded, so what the callback raises leaves
\* publish_model.
CallResult(func) == IF func = "raises" THEN PublishTaskFailed ELSE Ok

\* publish_model.  func is the publish_task_func argument: "none" (the
\* default, no callback), or a callback that "returns" or "raises" when it
\* is called.  user_id and force_publish_task are only handed to the callback.
PublishModel(model_id, company_id, func) ==
    LET call == [NoCall EXCEPT !.op = "publish", !.model_id = model_id,
                               !.company_id = company_id, !.func = func]
    IN  /\ pre' = Store
        /\ IF ~GetCompanyModelById(models, company_id, model_id)
           THEN /\ last' = [call EXCEPT !.err = InvalidModelId]
                /\ UNCHANGED <<models, tasks, now>>
           ELSE IF ModelReady(models, model_id)
           THEN /\ last' = [call EXCEPT !.err = ModelIsReady]
                /\ UNCHANGED <<models, tasks, now>>
           ELSE
             LET task_id == models[model_id].task
                 invoke == ShouldPublishTask(models, tasks, model_id,
                                             company_id, func)
             IN  IF invoke /\ CallResult(func) # Ok
                 THEN /\ last' = [call EXCEPT !.err = CallResult(func), !.calls = 1]
                      /\ UNCHANGED <<models, tasks, now>>
                 ELSE /\ now < MaxTime
                      /\ now' = now + 1
                      /\ tasks' = IF invoke THEN PublishTaskFunc(tasks, task_id)
                                  ELSE tasks
                      /\ models' = UpdateReady(models, model_id, now + 1)
                      /\ last' = [call EXCEPT
                                    !.count = 1,
                                    !.calls = IF invoke THEN 1 ELSE 0,
                                    !.published_task =
                                        IF invoke THEN task_id ELSE NoPayload]

\* ------------------------------------------------------------------ delete

\* CreatingTaskPublished with the status compared to the wrong constant.
CreatingTaskPublished_WrongStatus(ts, task_id) ==
    /\ task_id # NoTask
    /\ task_id \in DOMAIN ts
    /\ ts[task_id].status = created

\* Lines 113-115: the Model has a task, Task.objects(id=model.task) has a
\* first document, of whatever company, and its status is published.
CreatingTaskPublished(ts, task_id) ==
    /\ task_id # NoTask
    /\ task_id \in DOMAIN ts
    /\ ts[task_id].status = published

\* delete_model
DeleteModel(model_id, company_id, force) ==
    LET call == [NoCall EXCEPT !.op = "delete", !.model_id = model_id,
                               !.company_id = company_id, !.force = force]
        deleted_model_id == deleted_prefix \o model_id
        using_tasks == UsingTasks(tasks, model_id)
        \* the Task collection after lines 98-111
        rewritten == IF using_tasks # {}
                     THEN UpdateManyInput(tasks, using_tasks, model_id,
                                          deleted_model_id)
                     ELSE tasks
        removed == DeleteModels(models, company_id, model_id)
        del_count == Cardinality(ModelQuery(models, company_id, model_id))
    IN  /\ pre' = Store
        /\ IF ~GetCompanyModelById(models, company_id, model_id)
           THEN /\ last' = [call EXCEPT !.err = InvalidModelId]
                /\ UNCHANGED <<models, tasks, now>>
           ELSE IF using_tasks # {} /\ ~force
           THEN /\ last' = [call EXCEPT !.err = ModelInUse,
                                        !.num_tasks = Cardinality(using_tasks)]
                /\ UNCHANGED <<models, tasks, now>>
           ELSE
             LET task_id == models[model_id].task
                 task_published == CreatingTaskPublished(rewritten, task_id)
             IN  IF task_published /\ ~force
                 THEN /\ last' = [call EXCEPT !.err = ModelCreatingTaskExists,
                                              !.task = task_id]
                      /\ UNCHANGED <<models, tasks, now>>
                 ELSE IF task_published
                 THEN \E rewrite \in OutputRewriteOutcomes(rewritten[task_id], model_id) :
                        IF rewrite = "skipped"
                        THEN /\ tasks' = rewritten
                             /\ models' = removed
                             /\ last' = [call EXCEPT !.count = del_count,
                                                     !.rewrite = rewrite]
                             /\ UNCHANGED now
                        ELSE /\ now < MaxTime
                             /\ now' = now + 1
                             /\ IF rewrite = "rejected"
                                THEN /\ tasks' = rewritten
                                     /\ UNCHANGED models
                                     /\ last' = [call EXCEPT !.err = WriteError,
                                                             !.rewrite = rewrite]
                                ELSE /\ tasks' = UpdateOneOutput(rewritten, task_id,
                                            model_id, deleted_model_id, now + 1)
                                     /\ models' = removed
                                     /\ last' = [call EXCEPT !.count = del_count,
                                                             !.rewrite = rewrite]
                 ELSE /\ tasks' = rewritten
                      /\ models' = removed
                      /\ last' = [call EXCEPT !.count = del_count]
                      /\ UNCHANGED now

\* ------------------------------------------------------------------ archive

\* archive_model
ArchiveModel(model_id, company_id) ==
    LET call == [NoCall EXCEPT !.op = "archive", !.model_id = model_id,
                               !.company_id = company_id]
    IN  /\ pre' = Store
        /\ UNCHANGED tasks
        /\ IF ~GetCompanyModelById(models, company_id, model_id)
           THEN /\ last' = [call EXCEPT !.err = InvalidModelId]
                /\ UNCHANGED <<models, now>>
           ELSE /\ now < MaxTime
                /\ now' = now + 1
                /\ models' = AddArchivedTag(models, company_id, model_id, now + 1)
                /\ last' = [call EXCEPT !.count =
                               Cardinality(ModelQuery(models, company_id, model_id))]

\* unarchive_model
UnarchiveModel(model_id, company_id) ==
    LET call == [NoCall EXCEPT !.op = "unarchive", !.model_id = model_id,
                               !.company_id = company_id]
    IN  /\ pre' = Store
        /\ UNCHANGED tasks
        /\ IF ~GetCompanyModelById(models, company_id, model_id)
           THEN /\ last' = [call EXCEPT !.err = InvalidModelId]
                /\ UNCHANGED <<models, now>>
           ELSE /\ now < MaxTime
                /\ now' = now + 1
                /\ models' = PullArchivedTag(models, company_id, model_id, now + 1)
                /\ last' = [call EXCEPT !.count =
                               Cardinality(ModelQuery(models, company_id, model_id))]

\* ------------------------------------------------------------------ assert_exists

\* Model.get_many(company, query=Q(id__in=ids), allow_public): the Models
\* among ids that the company may see, its own and, with allow_public, the
\* public ones.
GetMany(ms, company_id, ids, allow_public) ==
    {m \in DOMAIN ms \cap ids :
        \/ ms[m].company = company_id
        \/ allow_public /\ ms[m].company \in PublicCompanies}

\* CountMismatch that only refuses a request none of whose ids resolve.
CountMismatch_NoneFound(q, ids) == Cardinality(q) = 0 /\ Cardinality(ids) # 0

\* `q.count() != len(ids)`, ids the set of the requested ids.
CountMismatch(q, ids) == Cardinality(q) # Cardinality(ids)

\* assert_exists.  model_ids is the list requested (line 37 makes a single id
\* a list of one); `only` projects fields and does not change the ids found.
\* A Model returned is named by its id.
AssertExists(company_id, model_ids, allow_public, return_models) ==
    LET call == [NoCall EXCEPT !.op = "assert_exists", !.company_id = company_id,
                               !.ids = model_ids, !.allow_public = allow_public,
                               !.return_models = return_models]
        ids == {model_ids[i] : i \in DOMAIN model_ids}
        q == GetMany(models, company_id, ids, allow_public)
    IN  /\ pre' = Store
        /\ UNCHANGED <<models, tasks, now>>
        /\ IF CountMismatch(q, ids)
           THEN last' = [call EXCEPT !.err = InvalidModelId, !.err_ids = model_ids]
           ELSE last' = [call EXCEPT !.returned = IF return_models THEN q ELSE {}]

\* ------------------------------------------------------------------ get_company_model_by_id

\* get_company_model_by_id called for itself: the Model found is returned,
\* named by its id.
GetCompanyModelByIdCall(company_id, model_id) ==
    LET call == [NoCall EXCEPT !.op = "get", !.model_id = model_id,
                               !.company_id = company_id]
    IN  /\ pre' = Store
        /\ UNCHANGED <<models, tasks, now>>
        /\ IF ~GetCompanyModelById(models, company_id, model_id)
           THEN last' = [call EXCEPT !.err = InvalidModelId]
           ELSE last' = [call EXCEPT !.returned = {model_id}]

\* ------------------------------------------------------------------ get_model_stats

\* StatsMatch that matches the Models of the company only.
StatsMatch_OwnOnly(ms, company, model_ids) ==
    {m \in DOMAIN ms :
        /\ ms[m].company = company
        /\ \E i \in DOMAIN model_ids : model_ids[i] = m}

\* $match: company in [None, "", company] and _id in model_ids.
StatsMatch(ms, company, model_ids) ==
    {m \in DOMAIN ms :
        /\ ms[m].company \in {NoCompany, "", company}
        /\ \E i \in DOMAIN model_ids : model_ids[i] = m}

\* $size of $objectToArray of labels: one array element for each key.
LabelsCount(labels) == Cardinality(DOMAIN labels)

\* get_model_stats.  The result maps the _id of each document the pipeline
\* yields to the rest of the document, which is its labels_count.
GetModelStats(company, model_ids) ==
    LET call == [NoCall EXCEPT !.op = "get_model_stats", !.company_id = company,
                               !.ids = model_ids]
    IN  /\ pre' = Store
        /\ UNCHANGED <<models, tasks, now>>
        /\ IF model_ids = <<>>
           THEN last' = call
           ELSE last' = [call EXCEPT
                    !.queries = 1,
                    !.stats = [m \in StatsMatch(models, company, model_ids) |->
                                  [labels_count |-> LabelsCount(models[m].labels)]]]

\* ------------------------------------------------------------------ specification

\* Whole calls, one after the other.
Next ==
    \/ \E m \in ModelIds, c \in Companies, f \in {"none", "returns", "raises"} :
          PublishModel(m, c, f) /\ UNCHANGED <<prev, runs>>
    \/ \E m \in ModelIds, c \in Companies, force \in BOOLEAN :
          DeleteModel(m, c, force) /\ UNCHANGED <<prev, runs>>
    \/ \E m \in ModelIds, c \in Companies :
          ArchiveModel(m, c) /\ UNCHANGED <<prev, runs>>
    \/ \E m \in ModelIds, c \in Companies :
          UnarchiveModel(m, c) /\ UNCHANGED <<prev, runs>>

Spec == Init /\ [][Next]_vars

\* ------------------------------------------------------------------ queries
\* The read-only operations, applied to stores of every shape: each Model
\* document present or deleted, of a company or public.

\* Longest list of ids requested from assert_exists.
MaxIds == 2

\* An id that never was a Model's.
UnknownModel == "mx"

\* The labels of m1 vary, m2 has one label.
InitReadModels ==
    {ms \in UNION {[D -> [company : Companies \cup PublicCompanies,
                          ready : {FALSE}, task : {NoTask},
                          system_tags : {<<>>}, last_update : {0},
                          labels : LabelMaps]] : D \in SUBSET ModelIds} :
        "m2" \in DOMAIN ms => DOMAIN ms["m2"].labels = {"cat"}}

InitRead ==
    /\ models \in InitReadModels
    /\ tasks = [t \in TaskIds |->
                   [company |-> "c1", status |-> created, input |-> <<>>,
                    output |-> <<>>, error |-> [msg |-> "", at |-> 0],
                    last_change |-> 0]]
    /\ now = 0
    /\ pre = [models |-> models, tasks |-> tasks]
    /\ last = NoCall
    /\ prev = NoHistory
    /\ runs = NoRuns

NextRead ==
    \/ \E c \in Companies, ids \in SeqsUpTo(ModelIds \cup {UnknownModel}, MaxIds),
          allow_public \in BOOLEAN, return_models \in BOOLEAN :
             AssertExists(c, ids, allow_public, return_models)
               /\ UNCHANGED <<prev, runs>>
    \/ \E c \in Companies, ids \in SeqsUpTo(ModelIds \cup {UnknownModel}, MaxIds) :
             GetModelStats(c, ids) /\ UNCHANGED <<prev, runs>>

SpecRead == InitRead /\ [][NextRead]_vars

\* ------------------------------------------------------------------ properties
\* The properties speak of the last call through `last` and `pre`, in their
\* own terms: none of them uses the operators the actions are built from.

\* M is a Model document of company C in store st.
Owned(st, M, C) == M \in DOMAIN st.models /\ st.models[M].company = C

\* Element i of array arr names id.
NamesAt(arr, i, id) == i \in 1..Len(arr) /\ arr[i].model = id

\* The Tasks of store st, of any company, that list M in models.input.
InputUsers(st, M) ==
    {t \in DOMAIN st.tasks : \E i \in 1..Len(st.tasks[t].input) :
                                 NamesAt(st.tasks[t].input, i, M)}

Tombstone(M) == deleted_prefix \o M

StoreUnchanged == models = pre.models /\ tasks = pre.tasks

\* The originating Task of M in store st exists and is published.
OriginPublished(st, M) ==
    /\ st.models[M].task \in DOMAIN st.tasks
    /\ st.tasks[st.models[M].task].status = "published"

\* The last call was delete_model(M, C, force) on a Model M of company C.
DeleteOf(M, C, force) ==
    /\ last.op = "delete" /\ last.model_id = M /\ last.company_id = C
    /\ last.force = force
    /\ Owned(pre, M, C)

\* C1: a delete_model(M, C, force=true) that returns, for a Model M of
\* company C that Tasks of any company list in models.input: every input
\* element that named M names the tombstone id, in its place, the Model
\* document is gone and the delete count returned is 1.
C1_ForceDeleteRewritesInputs ==
    \A M \in ModelIds, C \in Companies :
        (DeleteOf(M, C, TRUE) /\ last.err = "ok" /\ InputUsers(pre, M) # {}) =>
            /\ last.count = 1
            /\ M \notin DOMAIN models
            /\ \A t \in DOMAIN pre.tasks :
                  /\ Len(tasks[t].input) = Len(pre.tasks[t].input)
                  /\ \A i \in 1..Len(pre.tasks[t].input) :
                        NamesAt(pre.tasks[t].input, i, M) =>
                            NamesAt(tasks[t].input, i, Tombstone(M))

\* C1 happens: a force delete returned after rewriting the inputs of two
\* Tasks, one of another company, one of them naming the Model twice.
C1_Witness ==
    /\ last.op = "delete" /\ last.force /\ last.err = "ok" /\ last.count = 1
    /\ Cardinality(InputUsers(pre, last.model_id)) = 2
    /\ \E t \in DOMAIN pre.tasks :
          /\ pre.tasks[t].company # last.company_id
          /\ t \in InputUsers(pre, last.model_id)
    /\ \E t \in DOMAIN pre.tasks :
          /\ Len(pre.tasks[t].input) = 2
          /\ \A i \in 1..2 : NamesAt(pre.tasks[t].input, i, last.model_id)
          /\ \A i \in 1..2 : NamesAt(tasks[t].input, i, Tombstone(last.model_id))

\* C2: delete_model(M, C, force=false) on a Model that Tasks of any company
\* list in models.input fails with ModelInUse carrying the number of those
\* Tasks, and neither the Model nor any Task document has changed.
C2_InUseBlocksDelete ==
    \A M \in ModelIds, C \in Companies :
        (DeleteOf(M, C, FALSE) /\ InputUsers(pre, M) # {}) =>
            /\ last.err = "ModelInUse"
            /\ last.num_tasks = Cardinality(InputUsers(pre, M))
            /\ StoreUnchanged
            /\ M \in DOMAIN models

\* C2 happens: the delete was refused for two Tasks, one of another company.
C2_Witness ==
    /\ last.op = "delete" /\ ~last.force /\ last.err = "ModelInUse"
    /\ last.num_tasks = 2
    /\ \E t \in InputUsers(pre, last.model_id) :
          pre.tasks[t].company # last.company_id

\* C3 as stated: delete_model(M, C, force=false) on a Model whose originating
\* Task is published fails with ModelCreatingTaskExists carrying the task id,
\* and the store is unchanged.
C3_Original ==
    \A M \in ModelIds, C \in Companies :
        (DeleteOf(M, C, FALSE) /\ OriginPublished(pre, M)) =>
            /\ last.err = "ModelCreatingTaskExists"
            /\ last.task = pre.models[M].task
            /\ StoreUnchanged

\* C3 amended: delete_model(M, C, force=false) on a Model whose originating
\* Task (of whatever company) is published and that no Task lists in
\* models.input fails with ModelCreatingTaskExists carrying the task id; when
\* Tasks do list it in models.input the call fails with ModelInUse instead.
\* Either way the store is unchanged.
C3_TaskExistsBlocksDelete ==
    \A M \in ModelIds, C \in Companies :
        (DeleteOf(M, C, FALSE) /\ OriginPublished(pre, M)) =>
            /\ StoreUnchanged
            /\ M \in DOMAIN models
            /\ IF InputUsers(pre, M) = {}
               THEN /\ last.err = "ModelCreatingTaskExists"
                    /\ last.task = pre.models[M].task
               ELSE last.err = "ModelInUse"

\* C3 happens: the delete was refused for the published originating Task,
\* a Task of another company.
C3_Witness ==
    /\ last.op = "delete" /\ ~last.force
    /\ last.err = "ModelCreatingTaskExists"
    /\ last.task \in DOMAIN tasks
    /\ tasks[last.task].company # last.company_id
    /\ tasks[last.task].status = "published"

\* C4: a delete_model(M, C, force=true) that returns, for a Model whose
\* originating Task T is published and names M in models.output: every such
\* output element of T names the tombstone id, T.output.error is a non-empty
\* message, T.last_change is refreshed, and the Model document is gone.
C4_ForceDeleteRewritesOutput ==
    \A M \in ModelIds, C \in Companies :
        (/\ DeleteOf(M, C, TRUE) /\ last.err = "ok"
         /\ OriginPublished(pre, M)
         /\ \E i \in 1..Len(pre.tasks[pre.models[M].task].output) :
               NamesAt(pre.tasks[pre.models[M].task].output, i, M)) =>
            LET T == pre.models[M].task
            IN  /\ \A i \in 1..Len(pre.tasks[T].output) :
                      NamesAt(pre.tasks[T].output, i, M) =>
                          NamesAt(tasks[T].output, i, Tombstone(M))
                /\ tasks[T].error.msg # ""
                /\ tasks[T].last_change > pre.tasks[T].last_change
                /\ M \notin DOMAIN models

\* C5: once delete_model has removed a Model document M, no models.input or
\* models.output element of any Task names the live id M.
C5_NoLiveReferenceToDeleted ==
    \A M \in ModelIds \ DOMAIN models :
        \A t \in DOMAIN tasks :
            /\ \A i \in 1..Len(tasks[t].input) : ~NamesAt(tasks[t].input, i, M)
            /\ \A i \in 1..Len(tasks[t].output) : ~NamesAt(tasks[t].output, i, M)

\* The last call was publish_model(M, C, ...) on a Model M of company C.
PublishOf(M, C) ==
    /\ last.op = "publish" /\ last.model_id = M /\ last.company_id = C
    /\ Owned(pre, M, C)

\* The originating Task of M is found within company C and is not published.
TaskFoundUnpublished(st, M, C) ==
    /\ st.models[M].task \in DOMAIN st.tasks
    /\ st.tasks[st.models[M].task].company = C
    /\ st.tasks[st.models[M].task].status # "published"

\* C6: publish_model on a Model of the caller's company whose ready flag is
\* true fails with ModelIsReady, whatever its originating Task; the callback
\* is not called, nothing is returned, and no Model or Task document changes.
C6_PublishReadyFails ==
    \A M \in ModelIds, C \in Companies :
        (PublishOf(M, C) /\ pre.models[M].ready) =>
            /\ last.err = "ModelIsReady"
            /\ last.calls = 0
            /\ last.published_task = "none"
            /\ last.count = 0
            /\ StoreUnchanged

\* C6 happens: a ready Model was refused although a callback was given and
\* its originating Task is found and not published.
C6_Witness ==
    /\ last.op = "publish" /\ last.err = "ModelIsReady"
    /\ last.func = "returns"
    /\ TaskFoundUnpublished(pre, last.model_id, last.company_id)

\* C7: when the publish_task_func callback raises, publish_model fails with
\* what it raised and the Model document is as it was (ready false,
\* last_update unchanged); and publish_model answers ModelIsReady only for a
\* Model that was ready when the call started, so a retry after the failure
\* is not refused on account of the failed attempt.
C7_CallbackFailureLeavesDraft ==
    \A M \in ModelIds, C \in Companies :
        /\ (PublishOf(M, C) /\ last.func = "raises" /\ last.calls = 1) =>
              /\ last.err = "PublishTaskFailed"
              /\ M \in DOMAIN models
              /\ ~models[M].ready
              /\ models[M].last_update = pre.models[M].last_update
              /\ models = pre.models
        /\ (PublishOf(M, C) /\ last.err = "ModelIsReady") => pre.models[M].ready

\* C7 happens: the callback was called and raised.
C7_Witness ==
    /\ last.op = "publish" /\ last.func = "raises" /\ last.calls = 1
    /\ last.err = "PublishTaskFailed"
    /\ TaskFoundUnpublished(pre, last.model_id, last.company_id)

\* C8 as stated: a publish_model of a draft Model that does not fail sets
\* ready, calls the callback exactly once if and only if the Model's Task is
\* found and not published, and returns the cascade payload exactly when it
\* called the callback.
C8_Original ==
    \A M \in ModelIds, C \in Companies :
        (PublishOf(M, C) /\ ~pre.models[M].ready /\ last.err = "ok") =>
            /\ M \in DOMAIN models /\ models[M].ready
            /\ last.calls \in {0, 1}
            /\ (last.calls = 1) <=> TaskFoundUnpublished(pre, M, C)
            /\ (last.published_task # "none") <=> (last.calls = 1)

\* C8 amended: a publish_model of a draft Model that does not fail sets
\* ready, calls the callback exactly once if and only if a callback was
\* given and the Model's Task is found within the caller's company and is
\* not published, and returns the cascade payload (the task id with the
\* callback's result) exactly when it called the callback.
C8_PublishCascade ==
    \A M \in ModelIds, C \in Companies :
        (PublishOf(M, C) /\ ~pre.models[M].ready /\ last.err = "ok") =>
            /\ M \in DOMAIN models /\ models[M].ready
            /\ last.count = 1
            /\ last.calls \in {0, 1}
            /\ (last.calls = 1) <=>
                  (last.func # "none" /\ TaskFoundUnpublished(pre, M, C))
            /\ (last.published_task # "none") <=> (last.calls = 1)
            /\ last.calls = 1 => last.published_task = pre.models[M].task

\* C8 happens: a draft Model was published and the callback was called for
\* its Task.
C8_Witness ==
    /\ last.op = "publish" /\ last.err = "ok" /\ last.calls = 1
    /\ last.published_task = pre.models[last.model_id].task
    /\ ~pre.models[last.model_id].ready
    /\ models[last.model_id].ready
    /\ tasks[last.published_task].status = "published"

Visible(st, M, C, allow_public) ==
    /\ M \in DOMAIN st.models
    /\ \/ st.models[M].company = C
       \/ allow_public /\ st.models[M].company \in {"", "null"}

\* C10: assert_exists over N distinct requested ids (duplicates count once):
\* when fewer than N resolve under the visibility rule it fails with
\* InvalidModelId carrying the ids requested and returns nothing; when all N
\* resolve it succeeds, and returns exactly them if Models were asked for.
C10_AssertExistsAllOrNothing ==
    last.op = "assert_exists" =>
        LET ids == {last.ids[i] : i \in 1..Len(last.ids)}
            R == {M \in ids : Visible(pre, M, last.company_id, last.allow_public)}
        IN  /\ Cardinality(R) < Cardinality(ids) =>
                  /\ last.err = "InvalidModelId"
                  /\ last.err_ids = last.ids
                  /\ last.returned = {}
            /\ Cardinality(R) = Cardinality(ids) =>
                  /\ last.err = "ok"
                  /\ last.returned = IF last.return_models THEN R ELSE {}
            /\ StoreUnchanged

\* C10 happens: of two distinct ids requested one resolved, a public Model,
\* and the call failed.
C10_Witness ==
    /\ last.op = "assert_exists" /\ last.err = "InvalidModelId"
    /\ Len(last.ids) = 2 /\ last.ids[1] # last.ids[2]
    /\ last.allow_public /\ last.return_models
    /\ \E i \in 1..2 :
          /\ Visible(pre, last.ids[i], last.company_id, TRUE)
          /\ pre.models[last.ids[i]].company \in {"", "null"}
    /\ \E i \in 1..2 :
          /\ last.ids[i] \in DOMAIN pre.models
          /\ ~Visible(pre, last.ids[i], last.company_id, TRUE)

\* ------------------------------------------------------------------ archiving

\* The longest system_tags array a Model starts with.
MaxTags == 2

\* The system_tags arrays a Model may start with: system_tags is a set kept
\* in an array, so no tag is repeated.
TagLists ==
    {l \in UNION {[1..n -> {archived, "sys"}] : n \in 0..MaxTags} :
        \A i, j \in DOMAIN l : i # j => l[i] # l[j]}

\* m1 is a Model of c1, draft or ready, with any tags; m2 is a public Model.
InitArchiveModels ==
    {ms \in [ModelIds -> [company : {"c1", NoCompany}, ready : BOOLEAN,
                          task : {NoTask, "t1"}, system_tags : TagLists,
                          last_update : {0}, labels : {NoLabels}]] :
        /\ ms["m1"].company = "c1"
        /\ ms["m1"].task = "t1"
        /\ ms["m2"].company = NoCompany
        /\ ms["m2"].ready = TRUE
        /\ ms["m2"].task = NoTask
        /\ ms["m2"].system_tags = <<>>}

\* t1 created the Model m1 and t2 uses it.
InitArchiveTasks ==
    [t \in TaskIds |->
        [company |-> "c1", status |-> created,
         input |-> IF t = "t2" THEN <<ModelItem("m1")>> ELSE <<>>,
         output |-> IF t = "t1" THEN <<ModelItem("m1")>> ELSE <<>>,
         error |-> [msg |-> "", at |-> 0], last_change |-> 0]]

InitArchive ==
    /\ models \in InitArchiveModels
    /\ tasks = InitArchiveTasks
    /\ now = 0
    /\ pre = [models |-> models, tasks |-> tasks]
    /\ last = NoCall
    /\ prev = NoPrev
    /\ runs = NoRuns

\* Archive and unarchive calls one after the other, the call before the last
\* one remembered.
NextArchive ==
    \/ \E m \in ModelIds, c \in Companies :
          /\ ArchiveModel(m, c)
          /\ prev' = [pre |-> pre, last |-> last]
          /\ UNCHANGED runs
    \/ \E m \in ModelIds, c \in Companies :
          /\ UnarchiveModel(m, c)
          /\ prev' = [pre |-> pre, last |-> last]
          /\ UNCHANGED runs

SpecArchive == InitArchive /\ [][NextArchive]_vars

\* The number of elements of arr equal to x.
Occurrences(arr, x) == Cardinality({i \in DOMAIN arr : arr[i] = x})

\* The last two calls were op1 then op2, both on the Model M and both
\* successful.
TwoCalls(op1, op2, M) ==
    /\ prev.last.op = op1 /\ prev.last.model_id = M /\ prev.last.err = Ok
    /\ last.op = op2 /\ last.model_id = M /\ last.err = Ok

\* What C11 says of single calls and of two archives in a row.
C11_Idempotent ==
    \A M \in ModelIds :
        /\ TwoCalls("archive", "archive", M) =>
              /\ models[M].system_tags = pre.models[M].system_tags
              /\ Occurrences(models[M].system_tags, archived) = 1
        /\ (/\ last.op = "unarchive" /\ last.model_id = M
            /\ Owned(pre, M, last.company_id)
            /\ Occurrences(pre.models[M].system_tags, archived) = 0) =>
              /\ last.err = Ok
              /\ last.count = 1
              /\ models[M].system_tags = pre.models[M].system_tags
        /\ (last.op \in {"archive", "unarchive"} /\ last.model_id = M) =>
              /\ tasks = pre.tasks
              /\ DOMAIN models = DOMAIN pre.models
              /\ \A m \in DOMAIN models : models[m].ready = pre.models[m].ready

\* C11 as stated: archive_model and unarchive_model are idempotent, and an
\* archive followed by an unarchive restores the tags the Model had before
\* the archive, whatever they were.
C11_Original ==
    /\ C11_Idempotent
    /\ \A M \in ModelIds :
          TwoCalls("archive", "unarchive", M) =>
              models[M].system_tags = prev.pre.models[M].system_tags

\* C11: archive_model and unarchive_model are idempotent on an existing Model:
\* a second archive leaves system_tags as the first left them, with the
\* archived tag once; an unarchive of a Model without the archived tag
\* succeeds and leaves system_tags unchanged; neither changes ready or any
\* Task.  An archive followed by an unarchive restores the original tags when
\* the Model was not archived to begin with; when it was, the pair leaves the
\* original tags without the archived tag.
C11_ArchiveIdempotent ==
    /\ C11_Idempotent
    /\ \A M \in ModelIds :
          TwoCalls("archive", "unarchive", M) =>
              LET original == prev.pre.models[M].system_tags
                  final == models[M].system_tags
              IN  /\ Occurrences(original, archived) = 0 => final = original
                  /\ Occurrences(final, archived) = 0
                  /\ Occurrences(final, "sys") = Occurrences(original, "sys")
                  /\ Len(final) = Len(original) - Occurrences(original, archived)

\* An archive and then an unarchive of a Model that was not archived.
C11_Witness ==
    /\ TwoCalls("archive", "unarchive", "m1")
    /\ Occurrences(prev.pre.models["m1"].system_tags, archived) = 0
    /\ Occurrences(pre.models["m1"].system_tags, archived) = 1
    /\ Len(models["m1"].system_tags) = 1

\* ------------------------------------------------------------------ statistics

\* The ids of ids whose Model the company C may read statistics of: the Model
\* exists and is C's or public.
Resolvable(st, C, ids) ==
    {M \in {ids[i] : i \in DOMAIN ids} :
        /\ M \in DOMAIN st.models
        /\ \/ st.models[M].company = C
           \/ st.models[M].company = ""
           \/ st.models[M].company = "null"}

\* C12: get_model_stats(company, ids) never fails: its result is keyed by
\* exactly the requested ids whose Model exists and is the company's or
\* public, each mapped to the number of entries of the Model's labels; ids
\* of other companies' Models and of no Model are absent; for an empty list
\* of ids the result is empty and the store is not queried.  The store is
\* left as it was.
C12_StatsOfResolvable ==
    last.op = "get_model_stats" =>
        /\ last.err = Ok
        /\ StoreUnchanged
        /\ DOMAIN last.stats = Resolvable(pre, last.company_id, last.ids)
        /\ \A M \in DOMAIN last.stats :
              \E L \in SUBSET {"cat", "dog"} :
                  /\ DOMAIN pre.models[M].labels = L
                  /\ last.stats[M] = [labels_count |-> Cardinality(L)]
        /\ last.ids = <<>> => (last.stats = <<>> /\ last.queries = 0)
        /\ last.ids # <<>> => last.queries = 1

\* Statistics asked by c1 for a public Model with two labels and a Model of
\* c2: the first is in the result, the second is not.
C12_Witness ==
    /\ last.op = "get_model_stats"
    /\ last.company_id = "c1"
    /\ last.ids = <<"m1", "m2">>
    /\ Owned(pre, "m1", "") /\ Owned(pre, "m2", "c2")
    /\ DOMAIN pre.models["m1"].labels = {"cat", "dog"}
    /\ DOMAIN last.stats = {"m1"}
    /\ last.stats["m1"].labels_count = 2

\* ------------------------------------------------------------------ frame and tenancy

\* Task t of store st lists M in models.input.
ListsAsInput(st, t, M) ==
    \E i \in 1..Len(st.tasks[t].input) : NamesAt(st.tasks[t].input, i, M)

\* Task t of store st is the originating Task of M and is published.
IsPublishedOrigin(st, t, M) ==
    st.models[M].task = t /\ st.tasks[t].status = "published"

\* C17: a delete_model(M, C, force=true) on a Model M of C, however it ends,
\* alters only the array elements that name M: an element of models.input or
\* models.output that names another Model keeps its value and its position,
\* no array changes its length, no Task is added or removed, and a Task that
\* neither lists M in models.input nor is the published originating Task of
\* M is left as it was.
C17_ForceDeleteFrame ==
    \A M \in ModelIds, C \in Companies :
        DeleteOf(M, C, TRUE) =>
            /\ DOMAIN tasks = DOMAIN pre.tasks
            /\ \A t \in DOMAIN pre.tasks :
                  /\ Len(tasks[t].input) = Len(pre.tasks[t].input)
                  /\ Len(tasks[t].output) = Len(pre.tasks[t].output)
                  /\ \A i \in 1..Len(pre.tasks[t].input) :
                        ~NamesAt(pre.tasks[t].input, i, M) =>
                            tasks[t].input[i] = pre.tasks[t].input[i]
                  /\ \A i \in 1..Len(pre.tasks[t].output) :
                        ~NamesAt(pre.tasks[t].output, i, M) =>
                            tasks[t].output[i] = pre.tasks[t].output[i]
                  /\ tasks[t].status = pre.tasks[t].status
                  /\ tasks[t].company = pre.tasks[t].company
                  /\ ~IsPublishedOrigin(pre, t, M) =>
                        /\ tasks[t].output = pre.tasks[t].output
                        /\ tasks[t].error = pre.tasks[t].error
                        /\ tasks[t].last_change = pre.tasks[t].last_change
                  /\ (~ListsAsInput(pre, t, M) /\ ~IsPublishedOrigin(pre, t, M)) =>
                        tasks[t] = pre.tasks[t]

\* A force delete of m1 returned: t1 listed m2 and then m1 in models.input
\* and keeps m2 in the first place, and t2, which did not list m1, is as it
\* was.
C17_Witness ==
    /\ DeleteOf("m1", "c1", TRUE) /\ last.err = "ok"
    /\ pre.tasks["t1"].input = <<[model |-> "m2"], [model |-> "m1"]>>
    /\ tasks["t1"].input = <<[model |-> "m2"], [model |-> Tombstone("m1")]>>
    /\ ~ListsAsInput(pre, "t2", "m1")
    /\ tasks["t2"] = pre.tasks["t2"]

\* The last call was op on a Model M that exists and is not of the company C
\* given.
ForeignCall(op, M, C) ==
    /\ last.op = op /\ last.model_id = M /\ last.company_id = C
    /\ M \in DOMAIN pre.models
    /\ pre.models[M].company # C

\* C18: publish_model, delete_model with either force, archive_model and
\* unarchive_model called with a company that is not the Model's own, the
\* Model being another company's or public, fail with InvalidModelId (not
\* found), do not call the publish callback, and leave every Model and every
\* Task as it was.
C18_TenantScoped ==
    \A M \in ModelIds, C \in Companies :
        \A op \in {"publish", "delete", "archive", "unarchive"} :
            ForeignCall(op, M, C) =>
                /\ last.err = "InvalidModelId"
                /\ last.calls = 0
                /\ last.count = 0
                /\ StoreUnchanged

\* Company c2 called publish_model with a callback on m1, a Model of c1 whose
\* originating Task t2 is c2's own and not published: the call failed.
C18_Witness ==
    /\ ForeignCall("publish", "m1", "c2")
    /\ last.func = "returns"
    /\ pre.models["m1"].task = "t2"
    /\ pre.tasks["t2"].company = "c2"
    /\ pre.tasks["t2"].status # "published"
    /\ last.err = "InvalidModelId"

\* ------------------------------------------------------------------ after a deletion
\* Every operation, called in any order on a store whose Models can be
\* deleted: m1 is a Model of c1 and m2 a Model of c2, t1 lists both.

InitTerminalModels ==
    {ms \in [ModelIds -> [company : Companies, ready : {FALSE},
                          task : {NoTask, "t1"}, system_tags : {<<>>},
                          last_update : {0}, labels : {NoLabels}]] :
        /\ ms["m1"].company = "c1"
        /\ ms["m2"].company = "c2"
        /\ ms["m2"].task = NoTask}

InitTerminalTasks ==
    {ts \in [TaskIds -> [company : Companies, status : {created, published},
                         input : {<<>>, <<ModelItem("m1"), ModelItem("m2")>>},
                         output : {<<>>, <<ModelItem("m1")>>},
                         error : {[msg |-> "", at |-> 0]}, last_change : {0}]] :
        /\ ts["t1"].company = "c1"
        /\ Len(ts["t1"].input) = 2
        /\ Len(ts["t1"].output) = 1
        /\ ts["t2"].company = "c2"
        /\ ts["t2"].status = created
        /\ ts["t2"].input = <<>>
        /\ ts["t2"].output = <<>>}

InitTerminal ==
    /\ models \in InitTerminalModels
    /\ tasks \in InitTerminalTasks
    /\ now = 0
    /\ pre = [models |-> models, tasks |-> tasks]
    /\ last = NoCall
    /\ prev = NoHistory
    /\ runs = NoRuns

NextTerminal ==
    \/ \E m \in ModelIds, c \in Companies, f \in {"none", "returns", "raises"} :
          PublishModel(m, c, f) /\ UNCHANGED <<prev, runs>>
    \/ \E m \in ModelIds, c \in Companies, force \in BOOLEAN :
          DeleteModel(m, c, force) /\ UNCHANGED <<prev, runs>>
    \/ \E m \in ModelIds, c \in Companies :
          ArchiveModel(m, c) /\ UNCHANGED <<prev, runs>>
    \/ \E m \in ModelIds, c \in Companies :
          UnarchiveModel(m, c) /\ UNCHANGED <<prev, runs>>
    \/ \E m \in ModelIds, c \in Companies :
          GetCompanyModelByIdCall(c, m) /\ UNCHANGED <<prev, runs>>
    \/ \E c \in Companies, ids \in SeqsUpTo(ModelIds, MaxIds),
          allow_public \in BOOLEAN :
             AssertExists(c, ids, allow_public, TRUE) /\ UNCHANGED <<prev, runs>>
    \/ \E c \in Companies, ids \in SeqsUpTo(ModelIds, MaxIds) :
             GetModelStats(c, ids) /\ UNCHANGED <<prev, runs>>

SpecTerminal == InitTerminal /\ [][NextTerminal]_vars

\* C13: deletion is terminal.  A delete_model that returns the delete count 1
\* for M leaves no Model document M; and as long as there is no document M
\* there will be none: every get_company_model_by_id, publish_model,
\* delete_model, archive_model and unarchive_model for M, by any company,
\* fails with InvalidModelId (not found), assert_exists on ids that contain
\* M fails, and get_model_stats leaves M out of its result.
C13_DeletionTerminal ==
    \A M \in ModelIds :
        /\ (last.op = "delete" /\ last.model_id = M /\ last.err = "ok"
            /\ last.count = 1) => M \notin DOMAIN models
        /\ M \notin DOMAIN pre.models =>
              /\ M \notin DOMAIN models
              /\ (/\ last.op \in {"get", "publish", "delete", "archive", "unarchive"}
                  /\ last.model_id = M) =>
                    /\ last.err = "InvalidModelId"
                    /\ last.count = 0
                    /\ last.returned = {}
              /\ (/\ last.op = "assert_exists"
                  /\ \E i \in 1..Len(last.ids) : last.ids[i] = M) =>
                    /\ last.err = "InvalidModelId"
                    /\ last.returned = {}
              /\ last.op = "get_model_stats" => M \notin DOMAIN last.stats

\* After m1 was deleted, statistics asked by c2 for m1 and m2 hold m2 alone.
C13_Witness ==
    /\ "m1" \notin DOMAIN pre.models
    /\ last.op = "get_model_stats"
    /\ last.company_id = "c2"
    /\ last.ids = <<"m1", "m2">>
    /\ DOMAIN last.stats = {"m2"}

\* ------------------------------------------------------------------ calls in steps
\* Two calls run at the same time.  A call is a sequence of steps, each one
\* read or one write of the store; the steps of the two calls interleave in
\* any order, and a call may stop for good between two steps (the process
\* dies).  `pre` keeps the store the calls started from.

Procs == {1, 2}

\* A call that has not started.  pc is the step to take next; task, using
\* and rewrite are the locals model.task, using_tasks, and what lines 120-133
\* did.
NewRun(op, model_id, company_id, force, func) ==
    [op |-> op, model_id |-> model_id, company_id |-> company_id,
     force |-> force, func |-> func, pc |-> "resolve", crashed |-> FALSE,
     err |-> Ok, count |-> 0, calls |-> 0, task |-> NoTask, using |-> {},
     rewrite |-> "none"]

\* No call.
IdleRun == [NewRun("none", "", "", FALSE, "none") EXCEPT !.pc = "done"]

\* Process p is at step pc of a call of op.
At(p, op, pc) ==
    /\ runs[p].op = op
    /\ runs[p].pc = pc
    /\ ~runs[p].crashed

\* delete_model with the removal of the document as its first store write.
FirstDeleteStep_Remove == "delete"

\* The step of delete_model after the Model is resolved: line 98.
FirstDeleteStep == "using_tasks"

\* The fetched Model document, as far as the call reads it afterwards.
Fetched(r) == [m \in {r.model_id} |-> [task |-> r.task]]

\* Lines 65-67, 91-95, 140-142, 152-154: get_company_model_by_id, and for
\* publish_model the test of model.ready on the document fetched.
Resolve(p) ==
    LET r == runs[p]
    IN  /\ r.op # "none" /\ r.pc = "resolve" /\ ~r.crashed
        /\ UNCHANGED <<models, tasks, now, pre, last, prev>>
        /\ IF ~GetCompanyModelById(models, r.company_id, r.model_id)
           THEN runs' = [runs EXCEPT ![p].err = InvalidModelId, ![p].pc = "done"]
           ELSE IF r.op = "publish" /\ ModelReady(models, r.model_id)
           THEN runs' = [runs EXCEPT ![p].err = ModelIsReady, ![p].pc = "done"]
           ELSE runs' = [runs EXCEPT
                    ![p].task = models[r.model_id].task,
                    ![p].pc = CASE r.op = "publish" -> "find_task"
                                [] r.op = "delete" -> FirstDeleteStep
                                [] OTHER -> "update"]

\* Lines 98-104: the Tasks that list the Model in models.input are read.
FindUsingTasks(p) ==
    LET r == runs[p]
        using_tasks == UsingTasks(tasks, r.model_id)
    IN  /\ At(p, "delete", "using_tasks")
        /\ UNCHANGED <<models, tasks, now, pre, last, prev>>
        /\ IF using_tasks # {} /\ ~r.force
           THEN runs' = [runs EXCEPT ![p].err = ModelInUse, ![p].pc = "done"]
           ELSE runs' = [runs EXCEPT
                    ![p].using = using_tasks,
                    ![p].pc = IF using_tasks # {} THEN "update_many"
                              ELSE "find_origin"]

\* Lines 106-111: update_many on the Tasks read.
RewriteInputs(p) ==
    LET r == runs[p]
    IN  /\ At(p, "delete", "update_many")
        /\ tasks' = UpdateManyInput(tasks, r.using, r.model_id,
                                    deleted_prefix \o r.model_id)
        /\ runs' = [runs EXCEPT ![p].pc = "find_origin"]
        /\ UNCHANGED <<models, now, pre, last, prev>>

\* Lines 113-120: the originating Task is read.
FindOrigin(p) ==
    LET r == runs[p]
    IN  /\ At(p, "delete", "find_origin")
        /\ UNCHANGED <<models, tasks, now, pre, last, prev>>
        /\ IF ~CreatingTaskPublished(tasks, r.task)
           THEN runs' = [runs EXCEPT ![p].pc = "delete"]
           ELSE IF ~r.force
           THEN runs' = [runs EXCEPT ![p].err = ModelCreatingTaskExists,
                                     ![p].pc = "done"]
           ELSE \E rewrite \in OutputRewriteOutcomes(tasks[r.task], r.model_id) :
                  runs' = [runs EXCEPT
                      ![p].rewrite = rewrite,
                      ![p].pc = IF rewrite = "skipped" THEN "delete"
                                ELSE "update_one"]

\* Lines 121-133: update_one on the originating Task.
RewriteOutput(p) ==
    LET r == runs[p]
    IN  /\ At(p, "delete", "update_one")
        /\ now < MaxTime
        /\ now' = now + 1
        /\ UNCHANGED <<models, pre, last, prev>>
        /\ IF r.rewrite = "rejected"
           THEN /\ UNCHANGED tasks
                /\ runs' = [runs EXCEPT ![p].err = WriteError, ![p].pc = "done"]
           ELSE /\ tasks' = UpdateOneOutput(tasks, r.task, r.model_id,
                                           deleted_prefix \o r.model_id, now + 1)
                /\ runs' = [runs EXCEPT ![p].pc = "delete"]

\* Lines 135-136: the Model document is removed.
RemoveModel(p) ==
    LET r == runs[p]
    IN  /\ At(p, "delete", "delete")
        /\ models' = DeleteModels(models, r.company_id, r.model_id)
        /\ runs' = [runs EXCEPT
               ![p].count = MatchCount(models, r.company_id, r.model_id),
               ![p].pc = "done"]
        /\ UNCHANGED <<tasks, now, pre, last, prev>>

\* Lines 70-76: the Task of the Model is read.
FindTask(p) ==
    LET r == runs[p]
    IN  /\ At(p, "publish", "find_task")
        /\ UNCHANGED <<models, tasks, now, pre, last, prev>>
        /\ runs' = [runs EXCEPT ![p].pc =
               IF ShouldPublishTask(Fetched(r), tasks, r.model_id,
                                    r.company_id, r.func)
               THEN "callback" ELSE "update"]

\* Lines 77-82: the callback is called.
Callback(p) ==
    LET r == runs[p]
    IN  /\ At(p, "publish", "callback")
        /\ UNCHANGED <<models, now, pre, last, prev>>
        /\ IF CallResult(r.func) # Ok
           THEN /\ UNCHANGED tasks
                /\ runs' = [runs EXCEPT ![p].calls = 1,
                                        ![p].err = CallResult(r.func),
                                        ![p].pc = "done"]
           ELSE /\ tasks' = PublishTaskFunc(tasks, r.task)
                /\ runs' = [runs EXCEPT ![p].calls = 1, ![p].pc = "update"]

\* Lines 84-85: the fetched Model document is updated.
PublishUpdate(p) ==
    LET r == runs[p]
    IN  /\ At(p, "publish", "update")
        /\ now < MaxTime
        /\ now' = now + 1
        /\ models' = UpdateReady(models, r.model_id, now + 1)
        /\ runs' = [runs EXCEPT ![p].count = IdCount(models, r.model_id),
                                ![p].pc = "done"]
        /\ UNCHANGED <<tasks, pre, last, prev>>

\* Lines 143-148: the update of archive_model.
ArchiveUpdate(p) ==
    LET r == runs[p]
    IN  /\ At(p, "archive", "update")
        /\ now < MaxTime
        /\ now' = now + 1
        /\ models' = AddArchivedTag(models, r.company_id, r.model_id, now + 1)
        /\ runs' = [runs EXCEPT
               ![p].count = MatchCount(models, r.company_id, r.model_id),
               ![p].pc = "done"]
        /\ UNCHANGED <<tasks, pre, last, prev>>

\* Lines 155-160: the update of unarchive_model.
UnarchiveUpdate(p) ==
    LET r == runs[p]
    IN  /\ At(p, "unarchive", "update")
        /\ now < MaxTime
        /\ now' = now + 1
        /\ models' = PullArchivedTag(models, r.company_id, r.model_id, now + 1)
        /\ runs' = [runs EXCEPT
               ![p].count = MatchCount(models, r.company_id, r.model_id),
               ![p].pc = "done"]
        /\ UNCHANGED <<tasks, pre, last, prev>>

\* The process dies: the call takes no further step.
Crash(p) ==
    /\ runs[p].op # "none" /\ runs[p].pc # "done" /\ ~runs[p].crashed
    /\ runs' = [runs EXCEPT ![p].crashed = TRUE]
    /\ UNCHANGED <<models, tasks, now, pre, last, prev>>

\* m1 and m2 are draft Models of c1; t1, of c1, may have created each of
\* them and may list them; t2, of c2, lists both as inputs.
InitConcModels ==
    {ms \in [ModelIds -> [company : {"c1"}, ready : {FALSE},
                          task : {NoTask, "t1"}, system_tags : {<<>>},
                          last_update : {0}, labels : {NoLabels}]] : TRUE}

InitConcTasks ==
    {ts \in [TaskIds ->
                [company : Companies, status : {created, published},
                 input : {<<>>, <<ModelItem("m1")>>,
                          <<ModelItem("m1"), ModelItem("m2")>>,
                          <<ModelItem("m2"), ModelItem("m1")>>},
                 output : {<<>>, <<ModelItem("m1")>>},
                 error : {[msg |-> "", at |-> 0]}, last_change : {0}]] :
        /\ ts["t1"].company = "c1"
        /\ Len(ts["t1"].input) # 2 \/ ts["t1"].input[1].model = "m1"
        /\ ts["t2"].company = "c2"
        /\ ts["t2"].status = created
        /\ ts["t2"].input = <<ModelItem("m2"), ModelItem("m1")>>
        /\ ts["t2"].output = <<>>}

\* The calls company c1 makes: a delete of either Model, a publish of m1
\* without a callback or with one that returns or raises, an archive and an
\* unarchive of m1.
ConcCalls ==
    {NewRun("delete", m, "c1", force, "none") :
         m \in ModelIds, force \in BOOLEAN}
    \cup {NewRun("publish", "m1", "c1", FALSE, f) :
         f \in {"none", "returns", "raises"}}
    \cup {NewRun(op, "m1", "c1", FALSE, "none") : op \in {"archive", "unarchive"}}

\* The calls made at the same time as another: none, a force delete of
\* either Model, a publish of m1 with a callback.
ConcSecondCalls ==
    {IdleRun, NewRun("delete", "m1", "c1", TRUE, "none"),
     NewRun("delete", "m2", "c1", TRUE, "none"),
     NewRun("publish", "m1", "c1", FALSE, "returns")}

InitConc ==
    /\ models \in InitConcModels
    /\ tasks \in InitConcTasks
    /\ now = 0
    /\ pre = [models |-> models, tasks |-> tasks]
    /\ last = NoCall
    /\ prev = NoHistory
    /\ runs \in {r \in [Procs -> ConcCalls \cup ConcSecondCalls] :
                    r[1] \in ConcCalls /\ r[2] \in ConcSecondCalls}

NextConc ==
    \/ \E p \in Procs : Resolve(p)
    \/ \E p \in Procs : FindUsingTasks(p)
    \/ \E p \in Procs : RewriteInputs(p)
    \/ \E p \in Procs : FindOrigin(p)
    \/ \E p \in Procs : RewriteOutput(p)
    \/ \E p \in Procs : RemoveModel(p)
    \/ \E p \in Procs : FindTask(p)
    \/ \E p \in Procs : Callback(p)
    \/ \E p \in Procs : PublishUpdate(p)
    \/ \E p \in Procs : ArchiveUpdate(p)
    \/ \E p \in Procs : UnarchiveUpdate(p)
    \/ \E p \in Procs : Crash(p)

SpecConc == InitConc /\ [][NextConc]_vars

\* ------------------------------------------------------------------ properties of calls in steps

\* Every models.input element that named M when the calls started names
\* the tombstone of M now.
InputsRewritten(M) ==
    \A t \in DOMAIN pre.tasks : \A i \in 1..Len(pre.tasks[t].input) :
        NamesAt(pre.tasks[t].input, i, M) =>
            NamesAt(tasks[t].input, i, Tombstone(M))

\* Every models.output element of Task t that named M when the calls
\* started names the tombstone of M now.
OutputRewritten(t, M) ==
    \A i \in 1..Len(pre.tasks[t].output) :
        NamesAt(pre.tasks[t].output, i, M) =>
            NamesAt(tasks[t].output, i, Tombstone(M))

\* Some element that named M when the calls started names its tombstone now.
SomeRewritten(M) ==
    \E t \in DOMAIN pre.tasks :
        \/ \E i \in 1..Len(pre.tasks[t].input) :
              /\ NamesAt(pre.tasks[t].input, i, M)
              /\ NamesAt(tasks[t].input, i, Tombstone(M))
        \/ \E i \in 1..Len(pre.tasks[t].output) :
              /\ NamesAt(pre.tasks[t].output, i, M)
              /\ NamesAt(tasks[t].output, i, Tombstone(M))

\* Process 1 runs delete_model on M and no other call is made.
LoneDelete(M) ==
    /\ runs[1].op = "delete" /\ runs[1].model_id = M
    /\ runs[2].op = "none"

\* C14: in a delete_model run on M, alone, every reference rewrite the run
\* makes is applied before the Model document is removed.  In every state of
\* the run, a state it died in included: if M is removed, every input
\* element that named M names the tombstone, and so does every output
\* element of the originating Task if the run sent the output rewrite; and
\* if some element has been rewritten and the run has not finished, M is
\* still there.
C14_RewritesBeforeRemoval ==
    \A M \in ModelIds :
        LoneDelete(M) =>
            /\ M \notin DOMAIN models =>
                  /\ runs[1].pc = "done" /\ runs[1].count = 1
                  /\ InputsRewritten(M)
                  /\ runs[1].rewrite = "applied" =>
                        OutputRewritten(pre.models[M].task, M)
            /\ (SomeRewritten(M) /\ runs[1].pc # "done") => M \in DOMAIN models

\* A force delete of m1, alone, died after the input rewrite: t2 names the
\* tombstone and m1 is still there.
C14_Witness ==
    /\ LoneDelete("m1")
    /\ runs[1].crashed
    /\ runs[1].pc = "find_origin"
    /\ NamesAt(tasks["t2"].input, 2, Tombstone("m1"))
    /\ "m1" \in DOMAIN models

\* A store without its timestamps: the Models, and of each Task the company,
\* the status, the two arrays and the message of output.error.
View(st) ==
    [models |-> st.models,
     tasks |-> [t \in DOMAIN st.tasks |->
                   [company |-> st.tasks[t].company,
                    status |-> st.tasks[t].status,
                    input |-> st.tasks[t].input,
                    output |-> st.tasks[t].output,
                    msg |-> st.tasks[t].error.msg]]]

\* The array arr with every element naming M renamed to the tombstone of M.
Renamed(arr, M) ==
    [i \in DOMAIN arr |->
        IF arr[i].model = M THEN [model |-> Tombstone(M)] ELSE arr[i]]

\* The view a force delete of M, run alone on view v, ends with.  rewrite is
\* what became of the output rewrite: "applied" when it was sent and
\* applied to the originating Task, "rejected" when the store refused it, in
\* which case the delete stops before the removal.
SerialDelete(v, M, rewrite) ==
    [models |-> IF rewrite = "rejected" THEN v.models
                ELSE [m \in DOMAIN v.models \ {M} |-> v.models[m]],
     tasks |-> [t \in DOMAIN v.tasks |->
                   LET origin == rewrite = "applied" /\ v.models[M].task = t
                   IN  [company |-> v.tasks[t].company,
                        status |-> v.tasks[t].status,
                        input |-> Renamed(v.tasks[t].input, M),
                        output |-> IF origin THEN Renamed(v.tasks[t].output, M)
                                   ELSE v.tasks[t].output,
                        msg |-> IF origin THEN "model deleted on"
                                ELSE v.tasks[t].msg]]]

\* Both processes run a force delete and both calls have returned or raised.
TwoForceDeletesDone ==
    \A p \in {1, 2} :
        /\ runs[p].op = "delete" /\ runs[p].force
        /\ runs[p].pc = "done" /\ ~runs[p].crashed

\* C15: two force deletes of different Models, run at the same time, do not
\* conflict.  However their store calls interleave, a Task that lists both
\* Models included, each returns the delete count 1 without an error, and
\* the store they leave is the one the two deletes leave when run one after
\* the other, in either order (timestamps aside).  The one error a run can
\* end in is the store's refusal of its own update document of lines
\* 122-133, where that document is sent; the run then stops as it does when
\* run alone.
C15_DeletesOfDifferentModels ==
    (TwoForceDeletesDone /\ runs[1].model_id # runs[2].model_id) =>
        LET M1 == runs[1].model_id
            M2 == runs[2].model_id
            o1 == runs[1].rewrite
            o2 == runs[2].rewrite
        IN  /\ \A p \in {1, 2} :
                  IF runs[p].rewrite = "rejected"
                  THEN runs[p].err = "WriteError" /\ runs[p].count = 0
                  ELSE runs[p].err = "ok" /\ runs[p].count = 1
            /\ View(Store) = SerialDelete(SerialDelete(View(pre), M1, o1), M2, o2)
            /\ View(Store) = SerialDelete(SerialDelete(View(pre), M2, o2), M1, o1)

\* Force deletes of m1 and m2 both returned; t1 listed m1 and m2 and now
\* lists the two tombstones.
C15_Witness ==
    /\ TwoForceDeletesDone
    /\ runs[1].model_id = "m1" /\ runs[2].model_id = "m2"
    /\ runs[1].err = "ok" /\ runs[2].err = "ok"
    /\ runs[1].count = 1 /\ runs[2].count = 1
    /\ pre.tasks["t1"].input = <<[model |-> "m1"], [model |-> "m2"]>>
    /\ tasks["t1"].input = <<[model |-> Tombstone("m1")],
                             [model |-> Tombstone("m2")]>>
    /\ DOMAIN models = {}

\* C16: two force deletes of the same Model M, run at the same time.
\* However their store calls interleave: a rewrite that finds the elements
\* already renamed by the other run changes nothing and raises nothing, so
\* a run ends without an error, or with InvalidModelId when it looked M up
\* after the other run removed it; each delete count is 0 or 1 and, M being
\* removed, they sum to 1; and the store they leave is the one a single
\* force delete of M leaves (timestamps aside).  The one other error a run
\* can end in is the store's refusal of its own update document of lines
\* 122-133, where that document is sent; M is left in place only if both
\* runs ended so.
C16_DeletesOfSameModel ==
    (TwoForceDeletesDone /\ runs[1].model_id = runs[2].model_id) =>
        LET M == runs[1].model_id
            sent == {runs[p].rewrite : p \in {1, 2}}
            rewrite == IF "applied" \in sent THEN "applied"
                       ELSE IF sent = {"rejected"} THEN "rejected"
                       ELSE "skipped"
        IN  /\ \A p \in {1, 2} :
                  /\ runs[p].count \in {0, 1}
                  /\ IF runs[p].rewrite = "rejected"
                     THEN runs[p].err = "WriteError"
                     ELSE runs[p].err \in {"ok", "InvalidModelId"}
                  /\ runs[p].err # "ok" => runs[p].count = 0
            /\ M \notin DOMAIN models <=> sent # {"rejected"}
            /\ M \notin DOMAIN models => runs[1].count + runs[2].count = 1
            /\ View(Store) = SerialDelete(View(pre), M, rewrite)

\* Two force deletes of m1 both read the Tasks that list m1 before either
\* renamed the elements, both sent the input rewrite, and both reached the
\* removal: the first returned 0, the second 1.
C16_Witness ==
    /\ TwoForceDeletesDone
    /\ runs[1].model_id = "m1" /\ runs[2].model_id = "m1"
    /\ runs[1].using # {} /\ runs[2].using # {}
    /\ runs[1].err = "ok" /\ runs[2].err = "ok"
    /\ runs[1].count = 0 /\ runs[2].count = 1
    /\ "m1" \notin DOMAIN models
    /\ InputsRewritten("m1")

\* Both processes run publish_model on the same Model.
TwoPublishes ==
    /\ runs[1].op = "publish" /\ runs[2].op = "publish"
    /\ runs[1].model_id = runs[2].model_id

\* Both calls have returned or raised.
TwoPublishesDone ==
    /\ TwoPublishes
    /\ \A p \in {1, 2} : runs[p].pc = "done" /\ ~runs[p].crashed

\* C19 as stated: of two publish_model calls on the same draft Model run at
\* the same time at most one completes successfully, and the callback is
\* called at most once.
C19_Original ==
    TwoPublishesDone =>
        /\ ~(runs[1].err = "ok" /\ runs[2].err = "ok")
        /\ runs[1].calls + runs[2].calls <= 1

\* What holds in every state of two publish_model calls on the same Model.
PublishRaceStates ==
    TwoPublishes =>
        \A p \in {1, 2} :
            LET r == runs[p]
                other == runs[3 - p]
            IN  /\ r.calls <= 1
                /\ r.err = "ModelIsReady" =>
                      /\ r.calls = 0 /\ r.count = 0
                      /\ other.pc = "done" /\ other.err = "ok" /\ other.count = 1
                /\ (r.pc = "done" /\ r.err = "ok") =>
                      /\ r.count = 1
                      /\ models[r.model_id].ready

\* What holds of every step of two publish_model calls on the same Model: a
\* call that looks the Model up when it is ready ends with ModelIsReady.
PublishRaceSteps ==
    TwoPublishes =>
        \A p \in {1, 2} :
            (/\ runs[p].pc = "resolve" /\ runs'[p].pc # "resolve"
             /\ models[runs[p].model_id].ready) =>
                /\ runs'[p].pc = "done"
                /\ runs'[p].err = "ModelIsReady"

\* C19: two publish_model calls on the same draft Model, run at the same
\* time.  A call that looks the Model up after the other call's update fails
\* with ModelIsReady (already published) without calling the callback.  Two
\* calls that both look the Model up before either update both pass the
\* test of model.ready: each that does not fail in its callback completes
\* with the update count 1 and leaves the Model ready, so both may complete
\* successfully; each calls the callback at most once, so the callback may
\* be called twice for the Model's Task.
C19_PublishRace == [](PublishRaceStates) /\ [][PublishRaceSteps]_vars

\* Both publish_model calls on m1 completed successfully and each called
\* the callback for t1.
C19_Witness ==
    /\ TwoPublishesDone
    /\ runs[1].err = "ok" /\ runs[2].err = "ok"
    /\ runs[1].count = 1 /\ runs[2].count = 1
    /\ runs[1].calls = 1 /\ runs[2].calls = 1
    /\ pre.models["m1"].task = "t1"
    /\ models["m1"].ready

\* A step in which process p makes the update of its publish_model,
\* archive_model or unarchive_model when the Model is not there.
UpdateOfRemoved(p) ==
    /\ runs[p].op \in {"publish", "archive", "unarchive"}
    /\ runs[p].pc = "update" /\ runs'[p].pc = "done"
    /\ runs[p].model_id \notin DOMAIN models

\* C20: no operation creates a Model document: in every step of every
\* interleaving the Models after the step are among the Models before it.
\* A publish_model, archive_model or unarchive_model that found the Model
\* and makes its update after a delete_model removed it does not create it
\* again and returns the update count 0.
C20_NoModelCreated ==
    [][/\ DOMAIN models' \subseteq DOMAIN models
       /\ \A p \in {1, 2} :
             UpdateOfRemoved(p) =>
                 /\ runs'[p].count = 0
                 /\ runs'[p].err = "ok"
                 /\ runs[p].model_id \notin DOMAIN models']_vars

\* A publish_model of m1 passed its lookup, a force delete removed m1, and
\* the publish then returned the update count 0; m1 is not there.
C20_Witness ==
    /\ runs[1].op = "publish" /\ runs[1].model_id = "m1"
    /\ runs[1].pc = "done" /\ runs[1].err = "ok" /\ runs[1].count = 0
    /\ runs[2].op = "delete" /\ runs[2].model_id = "m1"
    /\ runs[2].pc = "done" /\ runs[2].count = 1
    /\ "m1" \notin DOMAIN models
====
